---- MODULE Spec2Model ----
(***************************************************************************)
(* CartelAPI (src/api.js): the browser-side API client of the CARTEL47     *)
(* betting platform.  One shared instance holds the session triple         *)
(* (token, userId, walletAddress), mirrors it into localStorage, and       *)
(* issues HTTP requests through a generic fetch wrapper.                   *)
(*                                                                         *)
(* JavaScript runs each async method synchronously up to its first real    *)
(* suspension, the transport call `await fetch(...)`.  A method is         *)
(* therefore modelled by two steps: the call (guard, header construction   *)
(* from the session as it is now, request issued) and the settlement (the  *)
(* response arrives and the rest of the method runs).  After the transport *)
(* await a method touches the session only in authenticateWallet's final   *)
(* setToken, so running the continuation as one step loses no interleaving *)
(* of session reads and writes.                                            *)
(***************************************************************************)
EXTENDS Integers, Sequences, FiniteSets, Bags, TLC

VARIABLES
    token,          \* this.token
    userId,         \* this.userId
    walletAddress,  \* this.walletAddress
    localStorage,   \* the persisted keys: a function from the keys present to strings
    inflight,       \* bag of outstanding transport calls, each with its continuation
    last,           \* observation of the latest step: request issued, result delivered
    prevOp,         \* history: the session operation the step before the latest belonged to, if any
    cleared,        \* history: clearSession ran and no setToken/authenticateWallet call began since
    authed          \* history: the latest authenticateWallet success, until the session is rewritten

vars == <<token, userId, walletAddress, localStorage, inflight, last, prevOp, cleared, authed>>

session == <<token, userId, walletAddress>>

----------------------------------------------------------------------------
(* JavaScript values.  Strings are themselves; null and undefined are two  *)
(* values that are not strings.                                            *)

JSNull == "<null>"
JSUndefined == "<undefined>"

\* String(v), as localStorage.setItem and template literals convert a value
String(v) ==
    IF v = JSNull THEN "null"
    ELSE IF v = JSUndefined THEN "undefined"
    ELSE v

\* the truthiness test of `if (this.token)` / `!this.token`
Truthy(v) == v \notin {JSNull, JSUndefined, ""}

----------------------------------------------------------------------------
(* Bounds and input domains *)

MaxInflight == 1

TOKEN_KEY == "cartel47_token"
USERID_KEY == "cartel47_userId"
WALLET_KEY == "cartel47_wallet"
StorageKeys == {TOKEN_KEY, USERID_KEY, WALLET_KEY}

API_BASE_URL == "http://localhost:3001/api"
\* API_BASE_URL.replace('/api', '')
API_ROOT_URL == "http://localhost:3001"

\* what callers pass to setToken: a complete triple, or three cleared values
SetTokenArgs ==
    { <<"t2", "u2", "0xDEF">>,
      <<JSNull, JSNull, JSNull>>,
      <<JSUndefined, JSUndefined, JSUndefined>> }

Wallets == {"0xABC"}
Signatures == {"sig"}
GameIds == {"g1"}
BetIds == {"b1"}
Categories == {"slots"}
Amounts == {10}
TokenSymbols == {"USDC"}
ClientSeeds == {"seed"}
TransactionTypes == {JSNull, "deposit"}
UserBetsOptions ==
    [status : {JSUndefined, "pending"}, limit : {JSUndefined, "10"}, offset : {JSUndefined}]

\* headers a direct caller of the wrapper may supply
CallerHeaders ==
    [contentType : {JSUndefined}, authorization : {JSUndefined, "Basic abc"}]
NoHeaders == [contentType |-> JSUndefined, authorization |-> JSUndefined]

\* what the server may answer
Statuses == {200, 500}
TransportMessages == {"Failed to fetch"}
ErrorFields == {JSUndefined, "invalid token"}
RespTokens == {JSUndefined, "", "t1", "t2"}
RespUserIds == {JSUndefined, "", "u1"}

NoData == [kind |-> "none", error |-> JSUndefined, token |-> JSUndefined, userId |-> JSUndefined]
TextBody == [kind |-> "text", error |-> JSUndefined, token |-> JSUndefined, userId |-> JSUndefined]
NullBody == [kind |-> "null", error |-> JSUndefined, token |-> JSUndefined, userId |-> JSUndefined]
ObjectBodies(tokens, userIds) ==
    [kind : {"object"}, error : ErrorFields, token : tokens, userId : userIds]

\* bodies by endpoint: only /auth/connect answers with token and userId fields
Bodies(op) ==
    {TextBody, NullBody} \cup
    IF op = "authenticateWallet"
    THEN ObjectBodies(RespTokens, RespUserIds)
    ELSE ObjectBodies({JSUndefined}, {JSUndefined})

NoResponse ==
    [kind |-> "none", status |-> 0, body |-> NoData, errName |-> "", message |-> ""]
HttpResponses(op) ==
    [kind : {"http"}, status : Statuses, body : Bodies(op), errName : {""}, message : {""}]
TransportFailures ==
    [kind : {"transport"}, status : {0}, body : {NoData},
     errName : {"TypeError"}, message : TransportMessages]
Responses(op) == HttpResponses(op) \cup TransportFailures

\* response.ok
Ok(response) == response.status \in 200..299

----------------------------------------------------------------------------
(* localStorage *)

getItem(store, key) == IF key \in DOMAIN store THEN store[key] ELSE JSNull

setItem(store, key, value) ==
    [k \in DOMAIN store \cup {key} |-> IF k = key THEN String(value) ELSE store[k]]

removeItem(store, key) == [k \in DOMAIN store \ {key} |-> store[k]]

EmptyStorage == [k \in {} |-> ""]

----------------------------------------------------------------------------
(* Observations *)

NoRequest ==
    [url |-> "", method |-> JSUndefined, contentType |-> JSUndefined,
     authorization |-> JSUndefined, body |-> JSUndefined]

Observation(op, phase) ==
    [op |-> op, phase |-> phase, sent |-> 0, state |-> "returned",
     errName |-> "", message |-> "", status |-> "", error |-> JSUndefined,
     data |-> NoData, req |-> NoRequest, callerHeaders |-> NoHeaders,
     response |-> NoResponse]

\* the operations that write the session
SessionMethods == {"setToken", "clearSession", "authenticateWallet"}

Observe(obs) ==
    /\ last' = obs
    /\ prevOp' = IF last.op \in SessionMethods THEN last.op ELSE ""

----------------------------------------------------------------------------
(* Request construction *)

Get == [method |-> JSUndefined, headers |-> NoHeaders, body |-> JSUndefined]
Post(body) == [method |-> "POST", headers |-> NoHeaders, body |-> body]

Quote(s) == "\"" \o s \o "\""

RECURSIVE Join(_, _)
Join(parts, sep) ==
    IF parts = <<>> THEN ""
    ELSE IF Len(parts) = 1 THEN parts[1]
    ELSE parts[1] \o sep \o Join(Tail(parts), sep)

\* JSON.stringify of an object given as <<key, value text>> pairs
Stringify(fields) ==
    "{" \o Join([i \in 1..Len(fields) |-> Quote(fields[i][1]) \o ":" \o fields[i][2]], ",") \o "}"

\* URLSearchParams: append each option that is truthy, then toString()
QueryString(options) ==
    Join((IF Truthy(options.status) THEN <<"status=" \o String(options.status)>> ELSE <<>>)
         \o (IF Truthy(options.limit) THEN <<"limit=" \o String(options.limit)>> ELSE <<>>)
         \o (IF Truthy(options.offset) THEN <<"offset=" \o String(options.offset)>> ELSE <<>>),
         "&")

\* BuildHeaders with the caller's headers spread after the credential
BuildHeadersCallerWins(options) ==
    [contentType |->
        IF options.headers.contentType # JSUndefined
        THEN options.headers.contentType ELSE "application/json",
     authorization |->
        IF options.headers.authorization # JSUndefined
        THEN options.headers.authorization
        ELSE IF Truthy(token) THEN "Bearer " \o String(token) ELSE JSUndefined]

\* the wrapper's headers: JSON content type, the caller's headers over it,
\* and the bearer credential over both when the token is truthy
BuildHeaders(options) ==
    [contentType |->
        IF options.headers.contentType # JSUndefined
        THEN options.headers.contentType ELSE "application/json",
     authorization |->
        IF Truthy(token)
        THEN "Bearer " \o String(token) ELSE options.headers.authorization]

\* the transport call of the wrapper
Request(endpoint, options) ==
    [url |-> API_BASE_URL \o endpoint,
     method |-> options.method,
     contentType |-> BuildHeaders(options).contentType,
     authorization |-> BuildHeaders(options).authorization,
     body |-> options.body]

\* the transport call of checkHealth / checkDatabase: no options at all
RootRequest(path) ==
    [url |-> API_ROOT_URL \o path, method |-> JSUndefined, contentType |-> JSUndefined,
     authorization |-> JSUndefined, body |-> JSUndefined]

----------------------------------------------------------------------------
(* Results *)

Rejected(errName, message) ==
    [state |-> "rejected", errName |-> errName, message |-> message, data |-> NoData]
Resolved(data) ==
    [state |-> "resolved", errName |-> "", message |-> "", data |-> data]

JSONParseMessage == "Unexpected token < in JSON at position 0"
NullReadMessage(field) == "Cannot read properties of null (reading '" \o field \o "')"

\* the wrapper after the transport call settles
FetchResult(response) ==
    IF response.kind = "transport"
    THEN Rejected(response.errName, response.message)
    ELSE IF ~Ok(response)
    THEN IF response.body.kind = "text"
         THEN Rejected("SyntaxError", JSONParseMessage)
         ELSE IF response.body.kind = "null"
         THEN Rejected("TypeError", NullReadMessage("error"))
         ELSE Rejected("Error",
                       IF Truthy(response.body.error)
                       THEN String(response.body.error)
                       ELSE "API Error: " \o ToString(response.status))
    ELSE IF response.body.kind = "text"
         THEN Rejected("SyntaxError", JSONParseMessage)
         ELSE Resolved(response.body)

\* checkHealth / checkDatabase after the transport call settles
StatusResult(response, okTag, notOkTag, caughtTag) ==
    IF response.kind = "transport"
    THEN [status |-> caughtTag, error |-> response.message]
    ELSE [status |-> IF Ok(response) THEN okTag ELSE notOkTag, error |-> JSUndefined]

----------------------------------------------------------------------------
(* Session *)

setToken(t, u, w) ==
    /\ token' = t
    /\ userId' = u
    /\ walletAddress' = w
    /\ localStorage' =
         setItem(setItem(setItem(localStorage, TOKEN_KEY, t), USERID_KEY, u), WALLET_KEY, w)

\* clearSession that leaves the wallet key in storage
clearSessionKeepsWallet ==
    /\ token' = JSNull
    /\ userId' = JSNull
    /\ walletAddress' = JSNull
    /\ localStorage' = removeItem(removeItem(localStorage, TOKEN_KEY), USERID_KEY)

clearSession ==
    /\ token' = JSNull
    /\ userId' = JSNull
    /\ walletAddress' = JSNull
    /\ localStorage' =
         removeItem(removeItem(removeItem(localStorage, TOKEN_KEY), USERID_KEY), WALLET_KEY)

NotAuthed ==
    [set |-> FALSE, token |-> JSUndefined, userId |-> JSUndefined, walletAddress |-> JSUndefined]

\* the state a construction reads from storage
Constructed(store) ==
    <<getItem(store, TOKEN_KEY), getItem(store, USERID_KEY), getItem(store, WALLET_KEY)>>

StoredSession ==
    [k \in StorageKeys |->
        IF k = TOKEN_KEY THEN "t1" ELSE IF k = USERID_KEY THEN "u1" ELSE "0xABC"]

Init ==
    /\ localStorage \in {EmptyStorage, StoredSession}
    /\ token = Constructed(localStorage)[1]
    /\ userId = Constructed(localStorage)[2]
    /\ walletAddress = Constructed(localStorage)[3]
    /\ inflight = EmptyBag
    /\ last = Observation("constructor", "sync")
    /\ prevOp = ""
    /\ cleared = FALSE
    /\ authed = NotAuthed

SetToken ==
    \E args \in SetTokenArgs :
        /\ setToken(args[1], args[2], args[3])
        /\ Observe(Observation("setToken", "sync"))
        /\ cleared' = FALSE
        /\ authed' = NotAuthed
        /\ UNCHANGED inflight

ClearSession ==
    /\ clearSession
    /\ Observe(Observation("clearSession", "sync"))
    /\ cleared' = TRUE
    /\ authed' = NotAuthed
    /\ UNCHANGED inflight

----------------------------------------------------------------------------
(* Calls: the synchronous part of each method, up to the transport call *)

Continuation(op, address) == [op |-> op, walletAddress |-> address]

\* this.fetch(endpoint, options) up to `await fetch(...)`
WrapperCall(op, endpoint, options, address) ==
    /\ BagCardinality(inflight) < MaxInflight
    /\ inflight' = inflight (+) SetToBag({Continuation(op, address)})
    /\ Observe([Observation(op, "call") EXCEPT
                  !.sent = 1, !.state = "pending",
                  !.req = Request(endpoint, options),
                  !.callerHeaders = options.headers])
    /\ UNCHANGED <<token, userId, walletAddress, localStorage>>

\* fetch(root + path) of the status methods
RootCall(op, path) ==
    /\ BagCardinality(inflight) < MaxInflight
    /\ inflight' = inflight (+) SetToBag({Continuation(op, JSUndefined)})
    /\ Observe([Observation(op, "call") EXCEPT
                  !.sent = 1, !.state = "pending", !.req = RootRequest(path)])
    /\ UNCHANGED <<token, userId, walletAddress, localStorage>>

\* throw new Error('Not authenticated')
NotAuthenticated(op) ==
    /\ Observe([Observation(op, "call") EXCEPT
                  !.state = "rejected", !.errName = "Error",
                  !.message = "Not authenticated"])
    /\ UNCHANGED <<token, userId, walletAddress, localStorage, inflight>>

\* a method guarded by `if (!guard) throw ...`
Guarded(op, guard, endpoint, options) ==
    IF ~Truthy(guard)
    THEN NotAuthenticated(op)
    ELSE WrapperCall(op, endpoint, options, JSUndefined)

Fetch ==
    \E headers \in CallerHeaders :
        /\ WrapperCall("fetch", "/games", [Get EXCEPT !.headers = headers], JSUndefined)
        /\ UNCHANGED <<cleared, authed>>

AuthenticateWallet ==
    \E address \in Wallets, signature \in Signatures :
        /\ WrapperCall("authenticateWallet", "/auth/connect",
                       Post(Stringify(<< <<"walletAddress", Quote(address)>>,
                                         <<"signature", Quote(signature)>> >>)),
                       address)
        /\ cleared' = FALSE
        /\ UNCHANGED authed

GetAllGames ==
    /\ WrapperCall("getAllGames", "/games", Get, JSUndefined)
    /\ UNCHANGED <<cleared, authed>>

GetGamesByCategory ==
    \E category \in Categories :
        /\ WrapperCall("getGamesByCategory", "/games?category=" \o String(category),
                       Get, JSUndefined)
        /\ UNCHANGED <<cleared, authed>>

GetGame ==
    \E gameId \in GameIds :
        /\ WrapperCall("getGame", "/games/" \o String(gameId), Get, JSUndefined)
        /\ UNCHANGED <<cleared, authed>>

PlaceBet ==
    \E gameId \in GameIds, betAmount \in Amounts, clientSeed \in ClientSeeds :
        /\ Guarded("placeBet", token, "/bets/place",
                   Post(Stringify(<< <<"gameId", Quote(gameId)>>,
                                     <<"betAmount", ToString(betAmount)>>,
                                     <<"clientSeed", Quote(clientSeed)>> >>)))
        /\ UNCHANGED <<cleared, authed>>

GetBet ==
    \E betId \in BetIds :
        /\ Guarded("getBet", token, "/bets/" \o String(betId), Get)
        /\ UNCHANGED <<cleared, authed>>

SettleBet ==
    \E betId \in BetIds :
        /\ Guarded("settleBet", token, "/bets/" \o String(betId) \o "/settle",
                   Post(Stringify(<<>>)))
        /\ UNCHANGED <<cleared, authed>>

UserBetsEndpoint(options) ==
    "/bets/user/" \o String(userId) \o "?" \o QueryString(options)

GetUserBets ==
    \E options \in UserBetsOptions :
        /\ Guarded("getUserBets", userId, UserBetsEndpoint(options), Get)
        /\ UNCHANGED <<cleared, authed>>

Deposit ==
    \E amount \in Amounts, tokenSymbol \in TokenSymbols :
        /\ Guarded("deposit", token, "/transactions/deposit",
                   Post(Stringify(<< <<"amount", ToString(amount)>>,
                                     <<"tokenSymbol", Quote(tokenSymbol)>> >>)))
        /\ UNCHANGED <<cleared, authed>>

Withdraw ==
    \E amount \in Amounts, tokenSymbol \in TokenSymbols :
        /\ Guarded("withdraw", token, "/transactions/withdraw",
                   Post(Stringify(<< <<"amount", ToString(amount)>>,
                                     <<"tokenSymbol", Quote(tokenSymbol)>> >>)))
        /\ UNCHANGED <<cleared, authed>>

GetTransactions ==
    \E type \in TransactionTypes :
        /\ Guarded("getTransactions", token,
                   IF Truthy(type) THEN "/transactions?type=" \o String(type)
                   ELSE "/transactions",
                   Get)
        /\ UNCHANGED <<cleared, authed>>

CheckHealth ==
    /\ RootCall("checkHealth", "/health")
    /\ UNCHANGED <<cleared, authed>>

CheckDatabase ==
    /\ RootCall("checkDatabase", "/db-check")
    /\ UNCHANGED <<cleared, authed>>

----------------------------------------------------------------------------
(* Settlements: the transport call settles and the rest of the method runs *)

StatusMethods == {"checkHealth", "checkDatabase"}
AuthMethods ==
    {"placeBet", "getBet", "settleBet", "getUserBets", "deposit", "withdraw", "getTransactions"}
WrapperMethods ==
    AuthMethods \cup {"fetch", "authenticateWallet", "getAllGames", "getGamesByCategory", "getGame"}

Settled(op, response, result) ==
    [Observation(op, "settle") EXCEPT
       !.state = result.state, !.errName = result.errName,
       !.message = result.message, !.data = result.data,
       !.response = response]

\* every method that returns the wrapper's result as it is
FetchSettles ==
    \E c \in BagToSet(inflight) :
        /\ c.op \in WrapperMethods \ {"authenticateWallet"}
        /\ \E response \in Responses(c.op) :
              Observe(Settled(c.op, response, FetchResult(response)))
        /\ inflight' = inflight (-) SetToBag({c})
        /\ UNCHANGED <<token, userId, walletAddress, localStorage, cleared, authed>>

\* authenticateWallet that takes the wallet address from the response body
AuthenticateWalletContinuesServerWallet(c, response) ==
    LET result == FetchResult(response) IN
    IF result.state = "rejected"
    THEN /\ Observe(Settled(c.op, response, result))
         /\ UNCHANGED <<token, userId, walletAddress, localStorage, authed>>
    ELSE IF result.data.kind = "null"
    THEN /\ Observe(Settled(c.op, response, Rejected("TypeError", NullReadMessage("token"))))
         /\ UNCHANGED <<token, userId, walletAddress, localStorage, authed>>
    ELSE /\ setToken(result.data.token, result.data.userId, JSUndefined)
         /\ Observe(Settled(c.op, response, result))
         /\ authed' = [set |-> TRUE, token |-> result.data.token,
                       userId |-> result.data.userId, walletAddress |-> c.walletAddress]

\* authenticateWallet that drops the session when the request fails
AuthenticateWalletContinuesLogout(c, response) ==
    LET result == FetchResult(response) IN
    IF result.state = "rejected"
    THEN /\ Observe(Settled(c.op, response, result))
         /\ clearSession
         /\ authed' = NotAuthed
    ELSE IF result.data.kind = "null"
    THEN /\ Observe(Settled(c.op, response, Rejected("TypeError", NullReadMessage("token"))))
         /\ clearSession
         /\ authed' = NotAuthed
    ELSE /\ setToken(result.data.token, result.data.userId, c.walletAddress)
         /\ Observe(Settled(c.op, response, result))
         /\ authed' = [set |-> TRUE, token |-> result.data.token,
                       userId |-> result.data.userId, walletAddress |-> c.walletAddress]

\* authenticateWallet after `await this.fetch(...)`
AuthenticateWalletContinues(c, response) ==
    LET result == FetchResult(response) IN
    IF result.state = "rejected"
    THEN /\ Observe(Settled(c.op, response, result))
         /\ UNCHANGED <<token, userId, walletAddress, localStorage, authed>>
    ELSE IF result.data.kind = "null"
    THEN /\ Observe(Settled(c.op, response, Rejected("TypeError", NullReadMessage("token"))))
         /\ UNCHANGED <<token, userId, walletAddress, localStorage, authed>>
    ELSE /\ setToken(result.data.token, result.data.userId, c.walletAddress)
         /\ Observe(Settled(c.op, response, result))
         /\ authed' = [set |-> TRUE, token |-> result.data.token,
                       userId |-> result.data.userId, walletAddress |-> c.walletAddress]

AuthenticateWalletSettles ==
    \E c \in BagToSet(inflight) :
        /\ c.op = "authenticateWallet"
        /\ \E response \in Responses(c.op) : AuthenticateWalletContinues(c, response)
        /\ inflight' = inflight (-) SetToBag({c})
        /\ UNCHANGED cleared

\* a status method without its try/catch
StatusContinuesUncaught(c, response, okTag, notOkTag, caughtTag) ==
    LET value == StatusResult(response, okTag, notOkTag, caughtTag) IN
    /\ Observe(IF response.kind = "transport"
               THEN Settled(c.op, response, Rejected(response.errName, response.message))
               ELSE [Observation(c.op, "settle") EXCEPT
                       !.state = "resolved", !.status = value.status,
                       !.error = value.error, !.response = response])
    /\ inflight' = inflight (-) SetToBag({c})
    /\ UNCHANGED <<token, userId, walletAddress, localStorage, cleared, authed>>

\* a status method after its transport call settles, inside try/catch
StatusContinues(c, response, okTag, notOkTag, caughtTag) ==
    LET value == StatusResult(response, okTag, notOkTag, caughtTag) IN
    /\ Observe([Observation(c.op, "settle") EXCEPT
                  !.state = "resolved", !.status = value.status,
                  !.error = value.error, !.response = response])
    /\ inflight' = inflight (-) SetToBag({c})
    /\ UNCHANGED <<token, userId, walletAddress, localStorage, cleared, authed>>

CheckHealthSettles ==
    \E c \in BagToSet(inflight) :
        /\ c.op = "checkHealth"
        /\ \E response \in Responses(c.op) :
              StatusContinues(c, response, "healthy", "unhealthy", "offline")

CheckDatabaseSettles ==
    \E c \in BagToSet(inflight) :
        /\ c.op = "checkDatabase"
        /\ \E response \in Responses(c.op) :
              StatusContinues(c, response, "connected", "disconnected", "error")

----------------------------------------------------------------------------

Next ==
    \/ SetToken
    \/ ClearSession
    \/ Fetch
    \/ AuthenticateWallet
    \/ GetAllGames
    \/ GetGamesByCategory
    \/ GetGame
    \/ PlaceBet
    \/ GetBet
    \/ SettleBet
    \/ GetUserBets
    \/ Deposit
    \/ Withdraw
    \/ GetTransactions
    \/ CheckHealth
    \/ CheckDatabase
    \/ FetchSettles
    \/ AuthenticateWalletSettles
    \/ CheckHealthSettles
    \/ CheckDatabaseSettles

Spec == Init /\ [][Next]_vars

----------------------------------------------------------------------------
(* Properties *)

Unset(v) == v \in {JSNull, JSUndefined}

SessionCleared ==
    /\ token = JSNull
    /\ userId = JSNull
    /\ walletAddress = JSNull
    /\ DOMAIN localStorage \cap StorageKeys = {}

IssuedByWrapper == last.phase = "call" /\ last.sent = 1 /\ last.op \in WrapperMethods

Bearer(t) == "Bearer " \o String(t)

UserBetsUrls(u) ==
    {API_BASE_URL \o "/bets/user/" \o String(u) \o "?" \o QueryString(o) : o \in UserBetsOptions}

\* C1: a call of a method that requires authentication, made while token is
\* not set (null or absent), fails locally with 'Not authenticated' and
\* issues no network request -- getUserBets with userId set included.
C1_AuthRequiredWithoutToken ==
    (last.phase = "call" /\ last.op \in AuthMethods /\ Unset(token))
        => (last.sent = 0 /\ last.state = "rejected" /\ last.message = "Not authenticated")

\* C2 as stated: every request issued, by any method and for any caller
\* headers, carries 'Authorization: Bearer <token>' iff token is non-null at
\* that moment, and carries no Authorization header when token is null.
C2_EveryRequestBearerIffToken ==
    (last.phase = "call" /\ last.sent = 1)
        => /\ (last.req.authorization = Bearer(token)) <=> ~Unset(token)
           /\ Unset(token) => last.req.authorization = JSUndefined

\* C2 amended: a request issued through the fetch wrapper carries
\* 'Authorization: Bearer <token>' when token is truthy (overriding a
\* caller-supplied Authorization header) and otherwise carries exactly the
\* caller's Authorization header, if any; the requests of checkHealth and
\* checkDatabase carry no Authorization header whatever the token is.
C2_WrapperBearerIffTruthy ==
    (last.phase = "call" /\ last.sent = 1)
        => IF last.op \in StatusMethods
           THEN last.req.authorization = JSUndefined
           ELSE last.req.authorization =
                   IF Truthy(token) THEN Bearer(token)
                   ELSE last.callerHeaders.authorization

C2_Witness ==
    /\ IssuedByWrapper
    /\ last.op = "fetch"
    /\ last.callerHeaders.authorization = "Basic abc"
    /\ token = "t1"
    /\ last.req.authorization = "Bearer t1"

\* C3: the in-memory session is never partial: token, userId and
\* walletAddress are all set or all unset.
C3_NoPartialSession ==
    \/ ~Unset(token) /\ ~Unset(userId) /\ ~Unset(walletAddress)
    \/ Unset(token) /\ Unset(userId) /\ Unset(walletAddress)

\* C4: a non-2xx answer to a wrapper request whose body is not JSON, or is
\* JSON without an error field, makes the call fail with the message
\* 'API Error: <status>'.
C4_GenericStatusMessage ==
    (/\ last.phase = "settle"
     /\ last.op \in WrapperMethods
     /\ last.response.kind = "http"
     /\ ~Ok(last.response)
     /\ last.response.body.error = JSUndefined)
        => /\ last.state = "rejected"
           /\ last.message = "API Error: " \o ToString(last.response.status)

\* C5: checkHealth and checkDatabase never throw: every transport outcome
\* resolves to a status value, a transport failure to 'offline' / 'error'
\* with the caught message; every other method rejects with the transport
\* failure as it was raised.
C5_StatusMethodsNeverThrow ==
    /\ (last.op \in StatusMethods /\ last.phase = "call") => last.state = "pending"
    /\ (last.op \in StatusMethods /\ last.phase = "settle")
          => /\ last.state = "resolved"
             /\ last.status =
                  IF last.response.kind = "transport"
                  THEN (IF last.op = "checkHealth" THEN "offline" ELSE "error")
                  ELSE IF Ok(last.response)
                  THEN (IF last.op = "checkHealth" THEN "healthy" ELSE "connected")
                  ELSE (IF last.op = "checkHealth" THEN "unhealthy" ELSE "disconnected")
             /\ last.error =
                  IF last.response.kind = "transport"
                  THEN last.response.message ELSE JSUndefined
    /\ (last.op \in WrapperMethods /\ last.phase = "settle"
          /\ last.response.kind = "transport")
          => /\ last.state = "rejected"
             /\ last.errName = last.response.errName
             /\ last.message = last.response.message

C5_Witness ==
    /\ last.op = "checkHealth"
    /\ last.phase = "settle"
    /\ last.response.kind = "transport"
    /\ last.status = "offline"
    /\ last.error = "Failed to fetch"

AuthedSession ==
    /\ token = authed.token
    /\ userId = authed.userId
    /\ walletAddress = authed.walletAddress

\* C6 as stated: after authenticateWallet(address, signature) resolves on a
\* 2xx response {token: t, userId: u} the session is (t, u, address), and
\* until the session is next written every wrapper request carries
\* 'Authorization: Bearer t' and getUserBets targets /bets/user/u.
C6_AuthenticatedRequests ==
    (authed.set /\ authed.token # JSUndefined /\ authed.userId # JSUndefined)
        => /\ AuthedSession
           /\ IssuedByWrapper => last.req.authorization = Bearer(authed.token)
           /\ (last.phase = "call" /\ last.op = "getUserBets")
                 => (last.sent = 1 /\ last.req.url \in UserBetsUrls(authed.userId))

\* C6 amended: the same, for a 2xx response whose token t and userId u are
\* non-empty strings.
C6_AuthenticatedRequestsNonEmpty ==
    (authed.set /\ Truthy(authed.token) /\ Truthy(authed.userId))
        => /\ AuthedSession
           /\ IssuedByWrapper => last.req.authorization = Bearer(authed.token)
           /\ (last.phase = "call" /\ last.op = "getUserBets")
                 => (last.sent = 1 /\ last.req.url \in UserBetsUrls(authed.userId))

C6_Witness ==
    /\ authed = [set |-> TRUE, token |-> "t1", userId |-> "u1", walletAddress |-> "0xABC"]
    /\ last.phase = "call"
    /\ last.op = "getUserBets"
    /\ last.req.authorization = "Bearer t1"
    /\ last.req.url = API_BASE_URL \o "/bets/user/u1?status=pending&limit=10"

\* C7: after clearSession -- whatever came before, a setToken(t, u, w) in
\* particular, or another clearSession -- token, userId and walletAddress
\* are null and none of the three keys is in storage.
C7_ClearSessionClears == last.op = "clearSession" => SessionCleared

C7_Witness ==
    /\ last.op = "clearSession"
    /\ prevOp = "setToken"
    /\ SessionCleared

\* C8: each in-memory field equals what a construction would read from its
\* storage key, also after setToken was given null or undefined values.
C8_SessionMirrorsStorage == session = Constructed(localStorage)

\* C9: once clearSession has run, the session stays cleared until a
\* setToken or authenticateWallet call that begins after it.
C9_StaysCleared == cleared => SessionCleared

\* C10: an authenticateWallet call that fails leaves the session as it was:
\* neither issuing the request nor its failure changes the in-memory fields
\* or the persisted keys.
C10_FailedAuthKeepsSession ==
    [][(last'.op = "authenticateWallet" /\ last'.state \in {"pending", "rejected"})
          => UNCHANGED <<token, userId, walletAddress, localStorage>>]_vars

C10_Witness ==
    /\ last.op = "authenticateWallet"
    /\ last.state = "rejected"
    /\ prevOp = "authenticateWallet"
    /\ session = <<"t1", "u1", "0xABC">>
    /\ session = Constructed(localStorage)

====
